---- MODULE Spec2Model ----
(***************************************************************************)
(* Model of the Habitat Supervisor self updater                            *)
(* (components/sup/src/manager/self_updater.rs) and of the launcher        *)
(* client's error types (components/launcher-client/src/error.rs).         *)
(*                                                                         *)
(* A package is represented by the version of its identifier; the order    *)
(* on PackageIdent is the order on these numbers.  Durations are whole     *)
(* ticks.  A oneshot channel is a record shared by the Sender held by a    *)
(* task and the Receiver held by the SelfUpdater.                          *)
(***************************************************************************)
EXTENDS Integers, Sequences, FiniteSets, TLC

\* Bounds of the model.
MaxGen == 3          \* task generations spawned over the life of a SelfUpdater
MaxVersion == 2      \* package versions are 0..MaxVersion
MaxPeriod == 2       \* poll periods are 1..MaxPeriod ticks
MaxFails == 2        \* consecutive installer failures are counted up to MaxFails

Versions == 0 .. MaxVersion
Periods == 1 .. MaxPeriod
Urls == {"bldr_a", "bldr_b"}
ChannelIdents == {"stable", "unstable"}

\* Option::None of updated(), and the empty value slot of a channel.
NoValue == -1
\* Result::Err of install_no_ui.
InstallErr == -2

VARIABLES
    self,       \* the SelfUpdater: rx, current, update_url, update_channel, period
    chans,      \* the oneshot channels created so far, by index
    tasks,      \* the tasks spawned so far, by generation
    op,         \* the operation that produced this state, and what it returned
    returned,   \* per channel, the number of updated() calls it gave a package to
    hist,       \* per live task: the ticks waited in the delay it is in, the
                \* splay and the installer result that delay follows, the
                \* number of splay delays it has completed and of installer
                \* failures in a row
    err,        \* launcher client: the error value in hand, <<>> when none
    eop         \* launcher client: the last operation on an error value

watcherVars == <<self, chans, tasks, op, returned, hist>>
errVars == <<err, eop>>
vars == <<self, chans, tasks, op, returned, hist, err, eop>>

----------------------------------------------------------------------------
(* tokio::sync::oneshot *)

\* oneshot::channel(): the sender is held, nothing was sent, the receiver is
\* live.  tx is "held", "sent" (consumed by send) or "dropped" (dropped
\* without a send); rx_inner is FALSE once try_recv has returned anything but
\* Empty; rx_dropped is TRUE once the Receiver itself was dropped.
oneshot_channel ==
    [tx |-> "held", value |-> NoValue, rx_inner |-> TRUE, rx_dropped |-> FALSE]

\* try_recv looking at the sender before the value slot: a value sent by a
\* sender that is gone is reported as Closed.
try_recv_closed_first(ch) ==
    IF ~ch.rx_inner
    THEN [res |-> "Closed", value |-> NoValue, ch |-> ch]
    ELSE IF ch.tx # "held"
    THEN [res |-> "Closed", value |-> NoValue,
          ch |-> [ch EXCEPT !.rx_inner = FALSE]]
    ELSE [res |-> "Empty", value |-> NoValue, ch |-> ch]

\* Receiver::try_recv: Ok(value) when a value is waiting, Empty while the
\* sender is alive and has not sent, Closed when the sender is gone without a
\* value or the receiver was already completed.
try_recv(ch) ==
    IF ~ch.rx_inner
    THEN [res |-> "Closed", value |-> NoValue, ch |-> ch]
    ELSE IF ch.tx = "sent"
    THEN [res |-> "Ok", value |-> ch.value,
          ch |-> [ch EXCEPT !.value = NoValue, !.rx_inner = FALSE]]
    ELSE IF ch.tx = "dropped"
    THEN [res |-> "Closed", value |-> NoValue,
          ch |-> [ch EXCEPT !.rx_inner = FALSE]]
    ELSE [res |-> "Empty", value |-> NoValue, ch |-> ch]

\* Sender::send: fails when the Receiver was dropped, otherwise stores the
\* value; the sender is consumed either way.
send(ch, package) ==
    IF ch.rx_dropped
    THEN [ok |-> FALSE, ch |-> [ch EXCEPT !.tx = "dropped"]]
    ELSE [ok |-> TRUE, ch |-> [ch EXCEPT !.tx = "sent", !.value = package]]

----------------------------------------------------------------------------
(* SelfUpdater *)

\* Runner::from taking the default channel instead of the updater's.
RunnerFrom_default_channel(other) ==
    [current        |-> other.current,
     update_url     |-> other.update_url,
     update_channel |-> "stable",
     period         |-> other.period]

\* impl From<T: Borrow<SelfUpdater>> for Runner
RunnerFrom(other) ==
    [current        |-> other.current,
     update_url     |-> other.update_url,
     update_channel |-> other.update_channel,
     period         |-> other.period]

\* SelfUpdater::init: a fresh channel, a task spawned on its sender, the
\* receiver returned.  The spawned task has not run yet.
init(runner, cs, ts) ==
    [chans |-> Append(cs, oneshot_channel),
     tasks |-> Append(ts, [pc |-> "start", runner |-> runner,
                           tx |-> Len(cs) + 1, timer |-> 0]),
     rx    |-> Len(cs) + 1]

\* SelfUpdater::new
new(current, update_url, update_channel, period) ==
    LET runner == [current |-> current, update_url |-> update_url,
                   update_channel |-> update_channel, period |-> period]
        s == init(runner, <<>>, <<>>)
    IN  [self  |-> [rx |-> s.rx, current |-> current, update_url |-> update_url,
                    update_channel |-> update_channel, period |-> period],
         chans |-> s.chans,
         tasks |-> s.tasks]

Alive(t) == t.pc \in {"start", "splay", "install", "delay"}

\* A splay drawn from the closed range [0, period].
SplayRange_inclusive(period) == 0 .. period

\* The range of rand's gen_range(0.0, period): [0, period).
SplayRange(period) == 0 .. (period - 1)

\* SelfUpdater::run up to the first await: draw the splay and start the delay.
run_start(t, splay) == [t EXCEPT !.pc = "splay", !.timer = splay]

\* run_install with the comparison `<=` in place of `<`.
run_install_le(t, ch, result) ==
    IF result # InstallErr /\ t.runner.current <= result
    THEN LET s == send(ch, result)
         IN  IF s.ok
             THEN [task |-> [t EXCEPT !.pc = "done", !.timer = 0], ch |-> s.ch]
             ELSE [task |-> [t EXCEPT !.pc = "panicked", !.timer = 0], ch |-> s.ch]
    ELSE [task |-> [t EXCEPT !.pc = "delay", !.timer = t.runner.period], ch |-> ch]

\* run_install without the `break` after the send: the task goes on to its
\* delay.
run_install_no_break(t, ch, result) ==
    IF result # InstallErr /\ t.runner.current < result
    THEN LET s == send(ch, result)
         IN  IF s.ok
             THEN [task |-> [t EXCEPT !.pc = "delay", !.timer = t.runner.period],
                   ch |-> s.ch]
             ELSE [task |-> [t EXCEPT !.pc = "panicked", !.timer = 0], ch |-> s.ch]
    ELSE [task |-> [t EXCEPT !.pc = "delay", !.timer = t.runner.period], ch |-> ch]

\* run_install going round the loop at once, without the delay, when the
\* package found is not newer.
run_install_skip_delay(t, ch, result) ==
    IF result # InstallErr /\ t.runner.current < result
    THEN LET s == send(ch, result)
         IN  IF s.ok
             THEN [task |-> [t EXCEPT !.pc = "done", !.timer = 0], ch |-> s.ch]
             ELSE [task |-> [t EXCEPT !.pc = "panicked", !.timer = 0], ch |-> s.ch]
    ELSE IF result # InstallErr
    THEN [task |-> [t EXCEPT !.pc = "delay", !.timer = 0], ch |-> ch]
    ELSE [task |-> [t EXCEPT !.pc = "delay", !.timer = t.runner.period], ch |-> ch]

\* run_install with the installer's error propagated out of run: the task
\* ends and its Sender is dropped.
run_install_err_fatal(t, ch, result) ==
    IF result # InstallErr /\ t.runner.current < result
    THEN LET s == send(ch, result)
         IN  IF s.ok
             THEN [task |-> [t EXCEPT !.pc = "done", !.timer = 0], ch |-> s.ch]
             ELSE [task |-> [t EXCEPT !.pc = "panicked", !.timer = 0], ch |-> s.ch]
    ELSE IF result = InstallErr
    THEN [task |-> [t EXCEPT !.pc = "crashed", !.timer = 0],
          ch |-> [ch EXCEPT !.tx = "dropped"]]
    ELSE [task |-> [t EXCEPT !.pc = "delay", !.timer = t.runner.period], ch |-> ch]

\* The loop body of SelfUpdater::run once install_no_ui has returned `result`
\* (a version, or InstallErr).
run_install(t, ch, result) ==
    IF result # InstallErr /\ t.runner.current < result
    THEN LET s == send(ch, result)
         IN  IF s.ok
             THEN [task |-> [t EXCEPT !.pc = "done", !.timer = 0], ch |-> s.ch]
             ELSE \* expect("Main thread has gone away!") panics
                  [task |-> [t EXCEPT !.pc = "panicked", !.timer = 0], ch |-> s.ch]
    ELSE [task |-> [t EXCEPT !.pc = "delay", !.timer = t.runner.period], ch |-> ch]

\* updated with the Empty arm restarting the task as the Closed arm does.
updated_fn_respawn_on_empty(slf, cs, ts) ==
    LET r == try_recv(cs[slf.rx])
        cs1 == [cs EXCEPT ![slf.rx] = r.ch]
    IN  IF r.res = "Ok"
        THEN {[self |-> slf, chans |-> cs1, tasks |-> ts,
               ret |-> r.value, branch |-> "Ok"]}
        ELSE LET s == init(RunnerFrom(slf),
                           [cs1 EXCEPT ![slf.rx].rx_dropped = TRUE], ts)
             IN  {[self |-> [slf EXCEPT !.rx = s.rx], chans |-> s.chans,
                   tasks |-> s.tasks, ret |-> NoValue, branch |-> r.res]}

\* updated with the Closed arm calling init without storing the receiver.
updated_fn_keeps_rx(slf, cs, ts) ==
    LET r == try_recv(cs[slf.rx])
        cs1 == [cs EXCEPT ![slf.rx] = r.ch]
    IN  CASE r.res = "Ok" ->
               {[self |-> slf, chans |-> cs1, tasks |-> ts,
                 ret |-> r.value, branch |-> "Ok"]}
          [] r.res = "Empty" ->
               {[self |-> slf, chans |-> cs1, tasks |-> ts,
                 ret |-> NoValue, branch |-> "Empty"]}
          [] r.res = "Closed" ->
               LET s == init(RunnerFrom(slf), cs1, ts)
               IN  {[self |-> slf,
                     chans |-> [s.chans EXCEPT ![s.rx].rx_dropped = TRUE],
                     tasks |-> s.tasks, ret |-> NoValue, branch |-> "Closed"]}

\* updated awaiting the receiver instead of try_recv: while the channel is
\* open and empty the call does not return.
updated_fn_await(slf, cs, ts) ==
    LET r == try_recv(cs[slf.rx])
        cs1 == [cs EXCEPT ![slf.rx] = r.ch]
    IN  CASE r.res = "Ok" ->
               {[self |-> slf, chans |-> cs1, tasks |-> ts,
                 ret |-> r.value, branch |-> "Ok"]}
          [] r.res = "Empty" -> {}
          [] r.res = "Closed" ->
               LET s == init(RunnerFrom(slf),
                             [cs1 EXCEPT ![slf.rx].rx_dropped = TRUE], ts)
               IN  {[self |-> [slf EXCEPT !.rx = s.rx], chans |-> s.chans,
                     tasks |-> s.tasks, ret |-> NoValue, branch |-> "Closed"]}

\* updated with the Closed arm only reporting None: a dead task is not
\* replaced.
updated_fn_no_respawn(slf, cs, ts) ==
    LET r == try_recv(cs[slf.rx])
        cs1 == [cs EXCEPT ![slf.rx] = r.ch]
    IN  CASE r.res = "Ok" ->
               {[self |-> slf, chans |-> cs1, tasks |-> ts,
                 ret |-> r.value, branch |-> "Ok"]}
          [] r.res = "Empty" ->
               {[self |-> slf, chans |-> cs1, tasks |-> ts,
                 ret |-> NoValue, branch |-> "Empty"]}
          [] r.res = "Closed" ->
               {[self |-> slf, chans |-> cs1, tasks |-> ts,
                 ret |-> NoValue, branch |-> "Closed"]}

\* SelfUpdater::updated, as the set of outcomes with which a call returns in
\* one step: try_recv does not wait, so there is always exactly one.
updated_fn(slf, cs, ts) ==
    LET r == try_recv(cs[slf.rx])
        cs1 == [cs EXCEPT ![slf.rx] = r.ch]
    IN  CASE r.res = "Ok" ->
               {[self |-> slf, chans |-> cs1, tasks |-> ts,
                 ret |-> r.value, branch |-> "Ok"]}
          [] r.res = "Empty" ->
               {[self |-> slf, chans |-> cs1, tasks |-> ts,
                 ret |-> NoValue, branch |-> "Empty"]}
          [] r.res = "Closed" ->
               \* assigning self.rx drops the old Receiver
               LET s == init(RunnerFrom(slf),
                             [cs1 EXCEPT ![slf.rx].rx_dropped = TRUE], ts)
               IN  {[self |-> [slf EXCEPT !.rx = s.rx], chans |-> s.chans,
                     tasks |-> s.tasks, ret |-> NoValue, branch |-> "Closed"]}


----------------------------------------------------------------------------
(* launcher-client error types *)

\* An error value: its type, its variant, the command name it carries (""
\* when the variant has no such field) and the error it wraps (<<>> when the
\* variant wraps none).
E(type, variant, cmd, inner) ==
    [type |-> type, variant |-> variant, cmd |-> cmd, inner |-> inner]

\* The command names the client passes to the command errors.
Commands == {"spawn", "terminate", "pid"}

\* Errors of the collaborating crates, opaque here.
ProtocolErrors == {E("protocol::Error", v, "", <<>>) : v \in {"Decode", "Encode"}}
NetErrs == {E("protocol::NetErr", v, "", <<>>) : v \in {"ErrNoPid", "ErrExecWait"}}
IoErrors == {E("io::Error", v, "", <<>>) : v \in {"BrokenPipe", "NotFound"}}
BincodeErrors == {E("ipc_channel::Error", v, "", <<>>) : v \in {"SizeLimit", "Custom"}}

\* ipc_channel::ipc::IpcError
IpcErrors ==
    {E("IpcError", "Bincode", "", <<b>>) : b \in BincodeErrors}
    \cup {E("IpcError", "Io", "", <<i>>) : i \in IoErrors}
    \cup {E("IpcError", "Disconnected", "", <<>>)}

ExternalErrors == ProtocolErrors \cup NetErrs \cup IoErrors \cup BincodeErrors \cup IpcErrors

\* enum ConnectError
ConnectError_of(e) ==
    CASE e.type = "io::Error" ->
            {E("ConnectError", "LauncherUnreachable", "", <<e>>),
             E("ConnectError", "IPCServerStartup", "", <<e>>)}
      [] e.type = "ipc_channel::Error" ->
            {E("ConnectError", "IPCIncomingConnection", "", <<e>>)}
      [] e.type = "SendError" ->
            {E("ConnectError", "LauncherRegisterSend", "", <<e>>)}
      [] e.type = "IPCReadError" ->
            {E("ConnectError", "LauncherRegisterReceive", "", <<e>>)}
      [] OTHER -> {}

\* IPCCommandError with the variants carrying the cause alone.
IPCCommandError_of_noname(cmd, e) ==
    CASE e.type = "SendError" -> {E("IPCCommandError", "Send", "", <<e>>)}
      [] e.type = "ReceiveError" -> {E("IPCCommandError", "Receive", "", <<e>>)}
      [] OTHER -> {}

\* enum IPCCommandError
IPCCommandError_of(cmd, e) ==
    CASE e.type = "SendError" -> {E("IPCCommandError", "Send", cmd, <<e>>)}
      [] e.type = "ReceiveError" -> {E("IPCCommandError", "Receive", cmd, <<e>>)}
      [] OTHER -> {}

\* enum TryIPCCommandError
TryIPCCommandError_of(cmd, e) ==
    CASE e.type = "SendError" -> {E("TryIPCCommandError", "Send", cmd, <<e>>)}
      [] e.type = "TryReceiveError" ->
            {E("TryIPCCommandError", "TryReceive", cmd, <<e>>)}
      [] OTHER -> {}

\* enum IPCReadError
IPCReadError_of(e) ==
    CASE e.type = "protocol::Error" ->
            {E("IPCReadError", "ProtocolDeserialize", "", <<e>>),
             E("IPCReadError", "PayloadDeserialize", "", <<e>>)}
      [] e.type = "protocol::NetErr" ->
            {E("IPCReadError", "LauncherCommand", "", <<e>>)}
      [] OTHER -> {}

\* enum SendError
SendError_of(e) ==
    CASE e.type = "protocol::Error" ->
            {E("SendError", "ProtocolSerialize", "", <<e>>),
             E("SendError", "PayloadSerialize", "", <<e>>)}
      [] e.type = "ipc_channel::Error" -> {E("SendError", "IPCSend", "", <<e>>)}
      [] OTHER -> {}

\* enum ReceiveError: the two #[from] conversions.
ReceiveError_from(e) ==
    CASE e.type = "IPCReadError" -> {E("ReceiveError", "IPCRead", "", <<e>>)}
      [] e.type = "IPCError" -> {E("ReceiveError", "IPCReceive", "", <<e>>)}
      [] OTHER -> {}

\* TryReceiveError with a disconnected transport reported as a timeout.
TryReceiveError_from_timeout(e) ==
    CASE e.type = "IPCReadError" -> {E("TryReceiveError", "IPCRead", "", <<e>>)}
      [] e.type = "IPCError" ->
            IF e.inner[1].variant = "Disconnected"
            THEN {E("TryReceiveError", "Timeout", "", <<>>)}
            ELSE {E("TryReceiveError", "IPCReceive", "", <<e>>)}
      [] OTHER -> {}

\* enum TryReceiveError: the two #[from] conversions.
TryReceiveError_from(e) ==
    CASE e.type = "IPCReadError" -> {E("TryReceiveError", "IPCRead", "", <<e>>)}
      [] e.type = "IPCError" -> {E("TryReceiveError", "IPCReceive", "", <<e>>)}
      [] OTHER -> {}

\* TryReceiveError::Timeout
TryReceiveError_Timeout == E("TryReceiveError", "Timeout", "", <<>>)

\* impl From<ipc_channel::ipc::IpcError> for IPCError
IPCError_from(e) ==
    IF e.type = "IpcError" THEN {E("IPCError", "0", "", <<e>>)} ELSE {}

\* source() left at the default of std::error::Error: no cause.
IPCError_source_none(e) == <<>>

\* impl std::error::Error for IPCError: source()
IPCError_source(e) ==
    LET ipc == e.inner[1]
    IN  CASE ipc.variant = "Bincode" -> <<ipc.inner[1]>>
          [] ipc.variant = "Io" -> <<ipc.inner[1]>>
          [] ipc.variant = "Disconnected" -> <<>>

\* source() as thiserror derives it: the #[source] or #[from] field.
derived_source(e) ==
    CASE e.type \in {"ConnectError", "IPCCommandError", "TryIPCCommandError",
                     "ReceiveError", "TryReceiveError"} -> e.inner
      [] e.type = "SendError" /\ e.variant = "IPCSend" -> e.inner
      [] OTHER -> <<>>

source(e) ==
    IF e.type = "IPCError" THEN IPCError_source(e) ELSE derived_source(e)

\* Display of an external error: its name.
external_fmt(e) == <<e.type, ": ", e.variant>>

\* impl fmt::Display for IPCError
IPCError_fmt(e) ==
    LET ipc == e.inner[1]
    IN  CASE ipc.variant = "Bincode" -> <<"bincode error: ">> \o external_fmt(ipc.inner[1])
          [] ipc.variant = "Io" -> <<"io error: ">> \o external_fmt(ipc.inner[1])
          [] ipc.variant = "Disconnected" -> <<"disconnected">>

\* Display as the #[error("...")] attributes derive it; {0} is the first field.
fmt(e) ==
    CASE e.type = "ConnectError" ->
           (CASE e.variant = "LauncherUnreachable" ->
                   <<"Failed to establish IPC connection to the launcher">>
              [] e.variant = "IPCServerStartup" ->
                   <<"Failed to start IPC server to listen for responses from launcher">>
              [] e.variant = "IPCIncomingConnection" ->
                   <<"Failed to accept incoming IPC connection from the launcher">>
              [] e.variant = "LauncherRegisterSend" ->
                   <<"Failed to send registration IPC command to the launcher">>
              [] e.variant = "LauncherRegisterReceive" ->
                   <<"Failed to receive registration IPC command response from the launcher">>)
      [] e.type = "IPCCommandError" ->
           (CASE e.variant = "Send" ->
                   <<"Failed to send '", e.cmd, "' command to launcher">>
              [] e.variant = "Receive" ->
                   <<"Failed to receive '", e.cmd, "' command response from launcher">>)
      [] e.type = "TryIPCCommandError" ->
           (CASE e.variant = "Send" ->
                   <<"Failed to send '", e.cmd, "' command to launcher">>
              [] e.variant = "TryReceive" ->
                   <<"Failed to try receiving '", e.cmd, "' command response from launcher">>)
      [] e.type = "IPCReadError" ->
           (CASE e.variant = "ProtocolDeserialize" ->
                   <<"Failed to deserialize launcher protocol message: ">>
                   \o external_fmt(e.inner[1])
              [] e.variant = "PayloadDeserialize" ->
                   <<"Received an unexpected launcher protocol message payload: ">>
                   \o external_fmt(e.inner[1])
              [] e.variant = "LauncherCommand" ->
                   <<"Launcher command execution failed: ">> \o external_fmt(e.inner[1]))
      [] e.type = "SendError" ->
           (CASE e.variant = "ProtocolSerialize" ->
                   <<"Failed to serialize launcher protocol message: ">>
                   \o external_fmt(e.inner[1])
              [] e.variant = "PayloadSerialize" ->
                   <<"Failed to serialize launcher protocol message payload: ">>
                   \o external_fmt(e.inner[1])
              [] e.variant = "IPCSend" -> <<"Failed to send command to launcher">>)
      [] e.type = "ReceiveError" ->
           (CASE e.variant = "IPCRead" -> <<"Failed to read launcher command response">>
              [] e.variant = "IPCReceive" ->
                   <<"Failed to receive IPC command response from launcher">>)
      [] e.type = "TryReceiveError" ->
           (CASE e.variant = "IPCRead" ->
                   <<"Failed to try reading launcher command response">>
              [] e.variant = "IPCReceive" ->
                   <<"Failed to try receiving IPC command response from launcher">>
              [] e.variant = "Timeout" ->
                   <<"Timed out trying to receive IPC command response from launcher">>)
      [] e.type = "IPCError" -> IPCError_fmt(e)
      [] OTHER -> external_fmt(e)

\* name: the operation; cmd: the command name passed to it ("" when it takes
\* none); arg: the error it was applied to; ret: what it returned.
EOp(name, cmd, arg, ret) == [name |-> name, cmd |-> cmd, arg |-> arg, ret |-> ret]

----------------------------------------------------------------------------
(* The state machine *)

\* name: the operation; gen: the task it is about (for updated, the channel
\* polled); ret: what it returned (for install, what the installer returned);
\* branch: the arm of updated's match; spawned: the tasks updated spawned.
Op(name, gen, ret, branch, spawned) ==
    [name |-> name, gen |-> gen, ret |-> ret, branch |-> branch, spawned |-> spawned]

\* The history of a task that has not run yet.
NoHist == [waited |-> 0, splay |-> NoValue, splays |-> 0, last |-> NoValue,
           fails |-> 0]

Init ==
    \E c \in Versions, u \in Urls, ch \in ChannelIdents, p \in Periods :
        LET s == new(c, u, ch, p)
        IN  /\ self = s.self
            /\ chans = s.chans
            /\ tasks = s.tasks
            /\ op = Op("new", 1, NoValue, "", 1)
            /\ returned = <<0>>
            /\ hist = <<NoHist>>
            /\ err = <<>>
            /\ eop = EOp("none", "", <<>>, <<>>)

\* The main loop polls the updater.
Updated ==
    \E s \in updated_fn(self, chans, tasks) :
        /\ self' = s.self
        /\ chans' = s.chans
        /\ tasks' = s.tasks
        /\ op' = Op("updated", self.rx, s.ret, s.branch, Len(s.tasks) - Len(tasks))
        /\ returned' = [i \in 1 .. Len(s.chans) |->
                           (IF i <= Len(returned) THEN returned[i] ELSE 0)
                           + (IF i = self.rx /\ s.ret # NoValue THEN 1 ELSE 0)]
        /\ hist' = [i \in 1 .. Len(s.tasks) |->
                       IF i <= Len(hist) THEN hist[i] ELSE NoHist]
        /\ UNCHANGED errVars

\* The spawned task is first polled: it draws its splay and starts sleeping.
TaskStart(i) ==
    /\ tasks[i].pc = "start"
    /\ \E d \in SplayRange(tasks[i].runner.period) :
          /\ tasks' = [tasks EXCEPT ![i] = run_start(tasks[i], d)]
          /\ hist' = [hist EXCEPT ![i].splay = d, ![i].waited = 0]
    /\ op' = Op("start", i, NoValue, "", 0)
    /\ UNCHANGED <<self, chans, returned, err, eop>>

\* One tick of a delay_for passes.
TaskTick(i) ==
    /\ tasks[i].pc \in {"splay", "delay"}
    /\ tasks[i].timer > 0
    /\ tasks' = [tasks EXCEPT ![i].timer = @ - 1]
    /\ hist' = [hist EXCEPT ![i].waited = @ + 1]
    /\ op' = Op("tick", i, NoValue, "", 0)
    /\ UNCHANGED <<self, chans, returned, err, eop>>

\* delay_for(splay) or delay_for(period) completes: the task calls
\* install_no_ui and is suspended in it.
TaskDelayDone(i) ==
    /\ tasks[i].pc \in {"splay", "delay"}
    /\ tasks[i].timer = 0
    /\ tasks' = [tasks EXCEPT ![i].pc = "install"]
    /\ hist' = [hist EXCEPT ![i] = [NoHist EXCEPT
                    !.splays = hist[i].splays + IF tasks[i].pc = "splay" THEN 1 ELSE 0,
                    !.fails = hist[i].fails]]
    /\ op' = Op(IF tasks[i].pc = "splay" THEN "splay_done" ELSE "delay_done",
                i, NoValue, "", 0)
    /\ UNCHANGED <<self, chans, returned, err, eop>>

\* install_no_ui returns; the task compares, and sends or starts its delay.
\* There is no await between the send and the end of run, so sending and
\* terminating are one step of the task.
\* A last-generation task is never handed a newer package (model bound).
InstallReturns(i, result) ==
    /\ LET s == run_install(tasks[i], chans[tasks[i].tx], result)
       IN  /\ tasks' = [tasks EXCEPT ![i] = s.task]
           /\ chans' = [chans EXCEPT ![tasks[i].tx] = s.ch]
    /\ hist' = [hist EXCEPT ![i] =
                  IF Alive(tasks'[i])
                  THEN [@ EXCEPT !.last = result, !.waited = 0,
                                 !.fails = IF result # InstallErr THEN 0
                                           ELSE IF @ < MaxFails THEN @ + 1 ELSE @]
                  ELSE NoHist]
    /\ op' = Op("install", i, result, "", 0)
    /\ UNCHANGED <<self, returned, err, eop>>

TaskInstall(i) ==
    /\ tasks[i].pc = "install"
    /\ \E result \in Versions \cup {InstallErr} :
          /\ (result # InstallErr /\ tasks[i].runner.current < result)
                => Len(tasks) < MaxGen
          /\ InstallReturns(i, result)

\* The task panics at any point of its life: its future is dropped, and the
\* Sender with it.  A last-generation task does not crash (model bound).
TaskCrash(i) ==
    /\ Alive(tasks[i])
    /\ Len(tasks) < MaxGen
    /\ tasks' = [tasks EXCEPT ![i].pc = "crashed", ![i].timer = 0]
    /\ chans' = [chans EXCEPT ![tasks[i].tx].tx = "dropped"]
    /\ hist' = [hist EXCEPT ![i] = NoHist]
    /\ op' = Op("crash", i, NoValue, "", 0)
    /\ UNCHANGED <<self, returned, err, eop>>

Next ==
    \/ Updated
    \/ \E i \in 1 .. Len(tasks) : TaskStart(i)
    \/ \E i \in 1 .. Len(tasks) : TaskTick(i)
    \/ \E i \in 1 .. Len(tasks) : TaskDelayDone(i)
    \/ \E i \in 1 .. Len(tasks) : TaskInstall(i)
    \/ \E i \in 1 .. Len(tasks) : TaskCrash(i)

Spec == Init /\ [][Next]_vars

----------------------------------------------------------------------------
(* The self updater under a main loop that keeps polling and a runtime that *)
(* keeps running the task.  The installer may hand any generation a newer  *)
(* package; the main loop stops polling once a restart would exceed MaxGen *)
(* generations (model bound), and a last-generation task does not crash.   *)

LiveUpdated ==
    /\ Len(tasks) < MaxGen \/ try_recv(chans[self.rx]).res # "Closed"
    /\ Updated

LiveInstall(i) ==
    /\ tasks[i].pc = "install"
    /\ \E result \in Versions \cup {InstallErr} : InstallReturns(i, result)

\* A step of the task other than a crash: the runtime polls its future, a
\* timer fires, the installer returns.
TaskStep ==
    \E i \in 1 .. Len(tasks) :
        \/ TaskStart(i)
        \/ TaskTick(i)
        \/ TaskDelayDone(i)
        \/ LiveInstall(i)

LiveNext ==
    \/ LiveUpdated
    \/ TaskStep
    \/ \E i \in 1 .. Len(tasks) : TaskCrash(i)

LiveSpec ==
    /\ Init
    /\ [][LiveNext]_vars
    /\ WF_vars(LiveUpdated)
    /\ WF_vars(TaskStep)

----------------------------------------------------------------------------
(* The launcher client's errors as a state machine: an error of a          *)
(* collaborating crate occurs, is converted and wrapped on its way up, and *)
(* is inspected through Display and source().                              *)

\* The SelfUpdater of ErrSpec: constructed and left alone.
ErrInit ==
    LET s == new(0, "bldr_a", "stable", 1)
    IN  /\ self = s.self
        /\ chans = s.chans
        /\ tasks = s.tasks
        /\ op = Op("new", 1, NoValue, "", 1)
        /\ returned = <<0>>
        /\ hist = <<NoHist>>
        /\ err = <<>>
        /\ eop = EOp("none", "", <<>>, <<>>)

Wrapped(name, cmd, e) ==
    /\ err' = <<e>>
    /\ eop' = EOp(name, cmd, err, <<e>>)
    /\ UNCHANGED watcherVars

\* A collaborating crate reports an error.
ErrOccur ==
    /\ err = <<>>
    /\ \E e \in ExternalErrors : Wrapped("occur", "", e)

\* A receive with a deadline finds no message.
ErrTimeout ==
    /\ err = <<>>
    /\ Wrapped("TryReceiveError::Timeout", "", TryReceiveError_Timeout)

ErrIPCError ==
    /\ err # <<>>
    /\ \E e \in IPCError_from(err[1]) : Wrapped("IPCError::from", "", e)

ErrIPCRead ==
    /\ err # <<>>
    /\ \E e \in IPCReadError_of(err[1]) : Wrapped("IPCReadError", "", e)

ErrSend ==
    /\ err # <<>>
    /\ \E e \in SendError_of(err[1]) : Wrapped("SendError", "", e)

ErrReceive ==
    /\ err # <<>>
    /\ \E e \in ReceiveError_from(err[1]) : Wrapped("ReceiveError::from", "", e)

ErrTryReceive ==
    /\ err # <<>>
    /\ \E e \in TryReceiveError_from(err[1]) : Wrapped("TryReceiveError::from", "", e)

ErrCommand ==
    /\ err # <<>>
    /\ \E cmd \in Commands :
          \E e \in IPCCommandError_of(cmd, err[1]) : Wrapped("IPCCommandError", cmd, e)

ErrTryCommand ==
    /\ err # <<>>
    /\ \E cmd \in Commands :
          \E e \in TryIPCCommandError_of(cmd, err[1]) : Wrapped("TryIPCCommandError", cmd, e)

ErrConnect ==
    /\ err # <<>>
    /\ \E e \in ConnectError_of(err[1]) : Wrapped("ConnectError", "", e)

\* The caller asks the error for its cause, and goes on with the cause if
\* there is one.
ErrSource ==
    /\ err # <<>>
    /\ eop' = EOp("source", "", err, source(err[1]))
    /\ err' = IF source(err[1]) = <<>> THEN err ELSE source(err[1])
    /\ UNCHANGED watcherVars

\* The caller logs the error.
ErrDisplay ==
    /\ err # <<>>
    /\ eop' = EOp("fmt", "", err, fmt(err[1]))
    /\ UNCHANGED <<err, watcherVars>>

\* The caller is done with the error.
ErrHandled ==
    /\ err # <<>>
    /\ err' = <<>>
    /\ eop' = EOp("handled", "", err, <<>>)
    /\ UNCHANGED watcherVars

ErrNext ==
    \/ ErrOccur
    \/ ErrTimeout
    \/ ErrIPCError
    \/ ErrIPCRead
    \/ ErrSend
    \/ ErrReceive
    \/ ErrTryReceive
    \/ ErrCommand
    \/ ErrTryCommand
    \/ ErrConnect
    \/ ErrSource
    \/ ErrDisplay
    \/ ErrHandled

ErrSpec == ErrInit /\ [][ErrNext]_vars

TypeOK ==
    /\ self.rx \in 1 .. Len(chans)
    /\ Len(chans) = Len(tasks)
    /\ Len(tasks) \in 1 .. MaxGen
    /\ Len(returned) = Len(chans)
    /\ Len(hist) = Len(tasks)

----------------------------------------------------------------------------
(* Properties of the self updater, checked under Spec *)

AliveTasks == {i \in 1 .. Len(tasks) : Alive(tasks[i])}

\* The number of updated() calls that returned Some(package).
RECURSIVE SumTo(_, _)
SumTo(f, n) == IF n = 0 THEN 0 ELSE f[n] + SumTo(f, n - 1)
NReturned == SumTo(returned, Len(returned))

\* C1: at most one task is alive at any time, and every generation but the
\* last spawned one is dead: updated() spawns only after the previous
\* generation has terminated.
C1_AtMostOneAlive ==
    /\ Cardinality(AliveTasks) <= 1
    /\ \A i \in 1 .. Len(tasks) - 1 : ~Alive(tasks[i])

\* updated() has restarted the updater and the new task is running.
C1_Witness ==
    /\ op.name = "updated"
    /\ op.spawned = 1
    /\ Len(tasks) >= 2
    /\ Alive(tasks[Len(tasks)])

\* C2: when the task of the stored receiver has died without sending, a call
\* of updated() spawns exactly one task, stores the receiver of that task's
\* channel, and returns None.
C2_CrashRespawn ==
    [][(op'.name = "updated" /\ chans[self.rx].tx = "dropped")
        => /\ Len(tasks') = Len(tasks) + 1
           /\ SubSeq(tasks', 1, Len(tasks)) = tasks
           /\ Alive(tasks'[Len(tasks')])
           /\ self'.rx = tasks'[Len(tasks')].tx
           /\ self'.rx # self.rx
           /\ chans'[self'.rx] = oneshot_channel
           /\ op'.ret = NoValue]_vars

\* updated() has found the channel of a crashed task closed.
C2_Witness ==
    /\ op.name = "updated"
    /\ op.branch = "Closed"
    /\ tasks[op.gen].pc = "crashed"
    /\ Len(tasks) = op.gen + 1
    /\ self.rx = op.gen + 1

\* C3: when the installer returns a package newer than current the task
\* sends it and terminates, and a terminated task and its channel's sender
\* never change again (one value per task); updated() returns a package
\* exactly when the polled channel holds a sent value that no earlier call
\* has received, and returns None otherwise.
C3_SendOnceDeliverOnce ==
    [][/\ (op'.name = "install" /\ op'.ret # InstallErr /\ op'.ret > self.current)
            => /\ chans[op'.gen].tx = "held"
               /\ chans[op'.gen].value = NoValue
               /\ chans'[op'.gen].tx = "sent"
               /\ chans'[op'.gen].value = op'.ret
               /\ tasks'[op'.gen].pc = "done"
       /\ \A i \in 1 .. Len(tasks) :
            /\ ~Alive(tasks[i]) => tasks'[i] = tasks[i]
            /\ chans[i].tx # "held" => chans'[i].tx = chans[i].tx
       /\ (op'.name = "updated" /\ chans[self.rx].tx = "sent" /\ returned[self.rx] = 0)
            => /\ op'.ret = chans[self.rx].value
               /\ op'.ret # NoValue
       /\ (op'.name = "updated"
           /\ ~(chans[self.rx].tx = "sent" /\ returned[self.rx] = 0))
            => op'.ret = NoValue]_vars

\* A package was returned, and a later call of updated() returned None.
C3_Witness ==
    /\ op.name = "updated"
    /\ op.ret = NoValue
    /\ \E i \in 1 .. Len(tasks) : tasks[i].pc = "done" /\ returned[i] = 1

\* C4: over the life of the SelfUpdater at most one call of updated() returns
\* a package.
C4_ReportedOnce == NReturned <= 1

\* C5: updated() spawns a task only when the polled channel was closed
\* without having yielded a value, never when its value was already received.
C5_RespawnOnlyOnDeath ==
    (op.name = "updated" /\ op.spawned > 0)
        => (chans[op.gen].tx = "dropped" /\ returned[op.gen] = 0)

NoSent == \A i \in 1 .. Len(chans) : chans[i].tx # "sent"

\* C6: while no task has sent a value, a call of updated() returns in one
\* step whatever the task is doing, and the call that led here returned None.
C6_PollBeforeSend ==
    NoSent => /\ ENABLED Updated
              /\ op.name = "updated" => op.ret = NoValue

\* updated() was called, with nothing sent, while the task was inside the
\* installer.
C6_Witness ==
    /\ NoSent
    /\ op.name = "updated"
    /\ op.branch = "Empty"
    /\ tasks[self.rx].pc = "install"

\* C7: a package returned by updated() is newer than current; a channel holds
\* a value only if it is newer than current, and a task has exited normally
\* exactly when it has sent.
C7_ReturnedIsNewer ==
    /\ (op.name = "updated" /\ op.ret # NoValue) => op.ret > self.current
    /\ \A i \in 1 .. Len(tasks) :
         /\ chans[i].value # NoValue => chans[i].value > self.current
         /\ tasks[i].pc = "done" <=> chans[i].tx = "sent"

\* updated() has returned a package.
C7_Witness ==
    /\ op.name = "updated"
    /\ op.branch = "Ok"
    /\ op.ret \in Versions
    /\ tasks[op.gen].pc = "done"

----------------------------------------------------------------------------
(* Properties of the launcher client's errors, checked under ErrSpec *)

ReadVariants == {"ProtocolDeserialize", "PayloadDeserialize", "LauncherCommand"}

IsReadFailure(e) ==
    /\ e.variant = "IPCRead"
    /\ Len(e.inner) = 1
    /\ e.inner[1].type = "IPCReadError"
    /\ e.inner[1].variant \in ReadVariants

IsTransportFailure(e) ==
    /\ e.variant = "IPCReceive"
    /\ Len(e.inner) = 1
    /\ e.inner[1].type = "IPCError"

IsTimeout(e) == e.variant = "Timeout" /\ e.inner = <<>>

Causes(e) == {k \in {"read", "transport", "timeout"} :
                 \/ k = "read" /\ IsReadFailure(e)
                 \/ k = "transport" /\ IsTransportFailure(e)
                 \/ k = "timeout" /\ IsTimeout(e)}

\* C8: a ReceiveError or TryReceiveError is exactly one of a read failure (of
\* one of the three IPCReadError variants), a transport failure or a timeout;
\* only a TryReceiveError is a timeout; converting an IPCError (a
\* disconnection included) gives the transport variant wrapping it, never
\* the timeout.
C8_ReceiveCauses ==
    (err # <<>> /\ err[1].type \in {"ReceiveError", "TryReceiveError"})
        => /\ Cardinality(Causes(err[1])) = 1
           /\ IsTimeout(err[1]) => err[1].type = "TryReceiveError"
           /\ (eop.name \in {"ReceiveError::from", "TryReceiveError::from"}
               /\ eop.arg[1].type = "IPCError")
                => (IsTransportFailure(err[1]) /\ err[1].inner = eop.arg)
           /\ (eop.name \in {"ReceiveError::from", "TryReceiveError::from"}
               /\ eop.arg[1].type = "IPCReadError")
                => (IsReadFailure(err[1]) /\ err[1].inner = eop.arg)

\* A disconnection was converted into a TryReceiveError.
C8_Witness ==
    /\ eop.name = "TryReceiveError::from"
    /\ eop.arg = <<E("IPCError", "0", "", <<E("IpcError", "Disconnected", "", <<>>)>>)>>
    /\ err # <<>>
    /\ err[1].type = "TryReceiveError"

IsCommandError(e) == e.type \in {"IPCCommandError", "TryIPCCommandError"}

IsRegisterError(e) ==
    /\ e.type = "ConnectError"
    /\ e.variant \in {"LauncherRegisterSend", "LauncherRegisterReceive"}

Range(f) == {f[i] : i \in DOMAIN f}

\* C9 as claimed: every IPCCommandError, every TryIPCCommandError and the
\* registration send and receive variants of ConnectError carry a command
\* name alongside their cause.
C9_AllCarryName ==
    (err # <<>> /\ (IsCommandError(err[1]) \/ IsRegisterError(err[1])))
        => (err[1].cmd \in Commands /\ Len(err[1].inner) = 1)

\* C9 as amended: every IPCCommandError and TryIPCCommandError carries the
\* command name it was built with alongside its cause, and its message shows
\* that name; the registration send and receive variants of ConnectError
\* carry their cause and no command name, and their message names the
\* registration command.
C9_CommandErrorsCarryName ==
    /\ (err # <<>> /\ IsCommandError(err[1]))
          => /\ err[1].cmd \in Commands
             /\ Len(err[1].inner) = 1
             /\ eop.name = err[1].type
                  => (err[1].cmd = eop.cmd /\ err[1].inner = eop.arg)
             /\ eop.name = "fmt" => err[1].cmd \in Range(eop.ret)
    /\ (err # <<>> /\ IsRegisterError(err[1]))
          => /\ err[1].cmd = ""
             /\ Len(err[1].inner) = 1
             /\ eop.name = "ConnectError" => err[1].inner = eop.arg
             /\ eop.name = "fmt"
                  => eop.ret \in
                       {<<"Failed to send registration IPC command to the launcher">>,
                        <<"Failed to receive registration IPC command response from the launcher">>}

\* A command error was built around a timeout for the command "spawn".
C9_Witness ==
    /\ eop.name = "TryIPCCommandError"
    /\ eop.cmd = "spawn"
    /\ err = <<E("TryIPCCommandError", "TryReceive", "spawn",
                 <<TryReceiveError_Timeout>>)>>

\* C10: source() of an IPCError is the error wrapped by the Bincode or Io
\* variant of its IpcError, and nothing when the IpcError is Disconnected.
C10_IPCErrorSource ==
    (eop.name = "source" /\ eop.arg[1].type = "IPCError")
        => LET ipc == eop.arg[1].inner[1]
           IN  /\ ipc.variant \in {"Bincode", "Io"}
                    => (eop.ret = ipc.inner /\ Len(eop.ret) = 1)
               /\ ipc.variant = "Disconnected" => eop.ret = <<>>

\* source() was asked of an IPCError wrapping an I/O error.
C10_Witness ==
    /\ eop.name = "source"
    /\ eop.arg[1].type = "IPCError"
    /\ eop.arg[1].inner[1].variant = "Io"
    /\ eop.ret = <<E("io::Error", "BrokenPipe", "", <<>>)>>

----------------------------------------------------------------------------
(* Further properties of the self updater, checked under Spec *)

\* C11: when the installer returns a package that is not newer than current,
\* the task sends nothing and starts a delay; a task leaves a delay for its
\* next install attempt only through the end of that delay, and after such a
\* result only once poll_period ticks have passed.
C11_NotNewerDelays ==
    [][/\ (op'.name = "install" /\ op'.ret \in Versions /\ op'.ret <= self.current)
            => /\ chans' = chans
               /\ chans[op'.gen].tx = "held"
               /\ tasks'[op'.gen].pc = "delay"
               /\ hist'[op'.gen].waited = 0
       /\ (op'.name = "delay_done" /\ hist[op'.gen].last \in Versions)
            => hist[op'.gen].waited = self.period
       /\ \A i \in 1 .. Len(tasks) :
            (tasks[i].pc = "delay" /\ tasks'[i].pc = "install")
                => (op'.name = "delay_done" /\ op'.gen = i)]_vars

\* After a package that was not newer, a task has waited the whole of the
\* longest poll_period and is about to install again.
C11_Witness ==
    \E i \in 1 .. Len(tasks) :
        /\ tasks[i].pc = "delay"
        /\ hist[i].last \in Versions
        /\ self.period = MaxPeriod
        /\ hist[i].waited = self.period
        /\ tasks[i].timer = 0

\* C12: when the installer fails the task stays alive and starts a delay, and
\* its channel stays open and empty; this holds after failures in a row; the
\* task leaves the delay that follows a failure only once poll_period ticks
\* have passed.
C12_InstallerFailureNotFatal ==
    [][/\ (op'.name = "install" /\ op'.ret = InstallErr)
            => /\ chans' = chans
               /\ tasks'[op'.gen].pc = "delay"
               /\ hist'[op'.gen].waited = 0
       /\ \A i \in 1 .. Len(tasks) :
            hist[i].fails > 0
                => /\ Alive(tasks[i])
                   /\ chans[tasks[i].tx] = oneshot_channel
       /\ (op'.name = "delay_done" /\ hist[op'.gen].last = InstallErr)
            => hist[op'.gen].waited = self.period]_vars

\* The installer has failed twice in a row and the task is inside the
\* installer for another attempt.
C12_Witness ==
    \E i \in 1 .. Len(tasks) :
        /\ hist[i].fails >= 2
        /\ tasks[i].pc = "install"
        /\ op.name = "delay_done"

NoneAlive == AliveTasks = {}

\* C13 as claimed: the stored receiver is the one of the last spawned task;
\* a live task's sender is paired with it; when no task is alive try_recv on
\* the stored receiver reports Closed.
C13_ClosedWhenNoneAlive ==
    /\ self.rx = tasks[Len(tasks)].tx
    /\ \A i \in AliveTasks : tasks[i].tx = self.rx
    /\ NoneAlive => try_recv(chans[self.rx]).res = "Closed"

\* C13 as amended: the stored receiver is the one of the last spawned task; a
\* live task's sender is paired with it and is held; when no task is alive the
\* sender of the stored receiver is gone, and the receiver holds the package
\* sent and not yet returned by updated(), or else reports Closed.
C13_RxOfLastTask ==
    /\ self.rx = tasks[Len(tasks)].tx
    /\ self.rx = Len(chans)
    /\ \A i \in AliveTasks :
         /\ tasks[i].tx = self.rx
         /\ chans[self.rx].tx = "held"
         /\ try_recv(chans[self.rx]).res = "Empty"
    /\ NoneAlive
         => /\ chans[self.rx].tx # "held"
            /\ IF tasks[self.rx].pc = "done" /\ returned[self.rx] = 0
               THEN /\ try_recv(chans[self.rx]).res = "Ok"
                    /\ try_recv(chans[self.rx]).value > self.current
               ELSE try_recv(chans[self.rx]).res = "Closed"

\* A respawned task has sent and ended; its package waits in the stored
\* receiver.
C13_Witness ==
    /\ NoneAlive
    /\ Len(tasks) >= 2
    /\ tasks[self.rx].pc = "done"
    /\ chans[self.rx].value # NoValue

\* C14: no send has failed (no task has panicked in the send), no live task
\* holds a sender whose receiver was dropped, and a receiver was dropped only
\* after its sender was consumed by a send or dropped.
C14_SendNeverFails ==
    \A i \in 1 .. Len(tasks) :
        /\ tasks[i].pc # "panicked"
        /\ Alive(tasks[i]) => ~chans[tasks[i].tx].rx_dropped
        /\ chans[i].rx_dropped => chans[i].tx # "held"
        /\ chans[i].rx_dropped => i # self.rx

\* A respawned task has sent its package, after the receiver of the previous
\* generation was dropped.
C14_Witness ==
    /\ op.name = "install"
    /\ op.gen >= 2
    /\ tasks[op.gen].pc = "done"
    /\ chans[op.gen].tx = "sent"
    /\ chans[op.gen - 1].rx_dropped

\* C15: a call of updated() on a channel holding a sent package returns that
\* package and spawns nothing; a call on a channel whose sender has not sent
\* yet returns None and changes neither the channel, the task nor the
\* SelfUpdater; the package of a task that has sent is either still in the
\* stored receiver or was returned, once.
C15_PackageNeverLost ==
    [][/\ (op'.name = "updated" /\ chans[self.rx].tx = "sent" /\ returned[self.rx] = 0)
            => /\ op'.ret = chans[self.rx].value
               /\ op'.ret \in Versions
               /\ op'.spawned = 0
               /\ tasks' = tasks
               /\ self' = self
       /\ (op'.name = "updated" /\ chans[self.rx].tx = "held")
            => /\ op'.ret = NoValue
               /\ chans' = chans
               /\ tasks' = tasks
               /\ self' = self
       /\ \A i \in 1 .. Len(tasks) :
            tasks[i].pc = "done"
                => \/ returned[i] = 1
                   \/ returned[i] = 0 /\ self.rx = i /\ chans[i].value \in Versions]_vars

\* updated() has returned the package a task sent, without a respawn.
C15_Witness ==
    /\ op.name = "updated"
    /\ op.branch = "Ok"
    /\ op.spawned = 0
    /\ op.ret \in Versions
    /\ returned[op.gen] = 1
    /\ self.rx = op.gen

\* C16: a task is spawned at the start of run; there it draws a splay d with
\* 0 <= d < poll_period; it completes its splay delay after exactly d ticks,
\* once, and is inside the installer only after that.
C16_SplayOncePerGeneration ==
    [][/\ Len(tasks') > Len(tasks) => tasks'[Len(tasks')].pc = "start"
       /\ op'.name = "start"
            => /\ tasks[op'.gen].pc = "start"
               /\ tasks'[op'.gen].pc = "splay"
               /\ hist'[op'.gen].splay = tasks'[op'.gen].timer
               /\ hist'[op'.gen].splay >= 0
               /\ hist'[op'.gen].splay < self.period
               /\ self.period > 0
       /\ op'.name = "splay_done"
            => /\ hist[op'.gen].waited = hist[op'.gen].splay
               /\ hist[op'.gen].splays = 0
               /\ hist'[op'.gen].splays = 1
       /\ \A i \in 1 .. Len(tasks) :
            /\ hist[i].splays <= 1
            /\ tasks[i].pc \in {"install", "delay"} => hist[i].splays = 1
            /\ tasks[i].pc \in {"start", "splay"} => hist[i].splays = 0
            /\ (tasks[i].pc # "splay" /\ tasks'[i].pc = "splay")
                 => tasks[i].pc = "start"]_vars

\* A respawned task has waited the whole of a splay of poll_period - 1 > 0
\* ticks.
C16_Witness ==
    \E i \in 2 .. Len(tasks) :
        /\ tasks[i].pc = "splay"
        /\ hist[i].splay = self.period - 1
        /\ hist[i].splay > 0
        /\ hist[i].waited = hist[i].splay
        /\ tasks[i].timer = 0

\* C17: no step changes current, update_url, update_channel or period of the
\* SelfUpdater, and every task, respawned or not, runs with exactly these four
\* values, which are those of the first task.
C17_ParametersFixed ==
    [][/\ self'.current = self.current
       /\ self'.update_url = self.update_url
       /\ self'.update_channel = self.update_channel
       /\ self'.period = self.period
       /\ \A i \in 1 .. Len(tasks') :
            /\ tasks'[i].runner.current = self.current
            /\ tasks'[i].runner.update_url = self.update_url
            /\ tasks'[i].runner.update_channel = self.update_channel
            /\ tasks'[i].runner.period = self.period
            /\ tasks'[i].runner = tasks[1].runner]_vars

\* updated() has respawned the task of an updater on the "unstable" channel.
C17_Witness ==
    /\ op.name = "updated"
    /\ op.spawned = 1
    /\ Len(tasks) >= 2
    /\ self.update_channel = "unstable"
    /\ self.update_url = "bldr_b"
    /\ tasks[Len(tasks)].runner.update_channel = "unstable"

----------------------------------------------------------------------------
(* Liveness of the self updater, checked under LiveSpec *)

\* The installer call that led to this state, if it was one, returned a
\* package newer than current.
InstallerGood == op.name = "install" => op.ret > self.current

\* Some call of updated() has returned a package.
Delivered == NReturned >= 1

\* C18: under LiveSpec (updated() is called again and again, the task keeps
\* being run and every installer call returns; crashes are finitely many), if
\* from some point on every installer call returns a package newer than
\* current then eventually a call of updated() returns a package.
C18_EventuallyDelivered == (<>[]InstallerGood) => <>Delivered

\* updated() has returned a package although the first task had crashed.
C18_Witness ==
    /\ tasks[1].pc = "crashed"
    /\ op.name = "updated"
    /\ op.ret \in Versions
    /\ Delivered

====
